---- MODULE Spec2Model ----
(***************************************************************************)
(* Model of fxcharts.py: the Renko brick engines (fixed step, percentage,  *)
(* ATR) behind the renko() dispatcher, and the Heikin-Ashi transform       *)
(* ha_candlesticks().  One behaviour is one call: Init draws the callee    *)
(* and its arguments, the actions are the dispatcher's branches and the    *)
(* iterations of the loops.                                                *)
(*                                                                         *)
(* Numbers are exact rationals <<numerator, denominator>> in lowest terms  *)
(* with a positive denominator.  The inputs are integers and dyadic        *)
(* fractions, for which the Python arithmetic of the source is exact.      *)
(* Sequence indices are the Python (0-based) ones; At(s, i) reads s[i].    *)
(***************************************************************************)
EXTENDS Integers, Sequences, FiniteSets, TLC

(* ------------------------------ bounds --------------------------------- *)
\* longest price series handed to the fixed and percentage engines
MaxLen == 3
\* longest OHLC table handed to the ATR engine
MaxBars == 5
\* longest OHLC table handed to the Heikin-Ashi transform
MaxHaBars == 3

(* ---------------------------- arithmetic ------------------------------- *)
Abs(x) == IF x < 0 THEN -x ELSE x

RECURSIVE GCD(_, _)
GCD(a, b) == IF b = 0 THEN a ELSE GCD(b, a % b)

\* the rational n/d (d # 0) in lowest terms
Frac(n, d) ==
    LET s == IF d < 0 THEN -1 ELSE 1
        g == GCD(Abs(n), Abs(d))
    IN  <<(s * n) \div g, (s * d) \div g>>

Num(k) == <<k, 1>>
Add(a, b) == Frac(a[1] * b[2] + b[1] * a[2], a[2] * b[2])
Sub(a, b) == Frac(a[1] * b[2] - b[1] * a[2], a[2] * b[2])
Mul(a, b) == Frac(a[1] * b[1], a[2] * b[2])
Div(a, b) == Frac(a[1] * b[2], a[2] * b[1])
Less(a, b) == a[1] * b[2] < b[1] * a[2]
IsZero(a) == a[1] = 0
\* abs()
abs(a) == <<Abs(a[1]), a[2]>>
\* math.floor(): the integer result
floor(a) == a[1] \div a[2]
\* int(np.sign())
sign(a) == IF a[1] > 0 THEN 1 ELSE IF a[1] < 0 THEN -1 ELSE 0
max2(a, b) == IF Less(a, b) THEN b ELSE a
min2(a, b) == IF Less(b, a) THEN b ELSE a
\* statistics.mean() of a non-empty sequence
RECURSIVE Sum(_)
Sum(s) == IF s = <<>> THEN Num(0) ELSE Add(s[1], Sum(Tail(s)))
mean(s) == Div(Sum(s), Num(Len(s)))
\* np.nan
NaN == <<0, 0>>

\* s[i] with a 0-based index
At(s, i) == s[i + 1]
\* s[-1]
Last(s) == s[Len(s)]
\* s[1:]
Slice1(s) == IF s = <<>> THEN <<>> ELSE Tail(s)

(* ------------------------------ inputs --------------------------------- *)
\* prices of the generated series; 0 is the degenerate anchor of the
\* percentage engine, -4 a price outside the engines' intended domain
Prices == {Num(-4), Num(0), Num(1), Num(4), Num(10)}
\* values of the option fixed=, the non-positive ones included
Steps == {Num(-1), Num(0), Num(1), Num(3)}
\* values of the option percentage=
Percentages == {<<1, 2>>, <<3, 4>>}
\* values of the option atr=
Windows == {1, 2}
SizingKeys == {"fixed", "percentage", "atr"}
OhlcKeys == {"open", "high", "low", "close"}

\* the series of the worked example of the fixed-step engine
ExampleSeries == <<Num(100), Num(101), Num(103), Num(99)>>
ExampleChart ==
    <<Num(100), Num(101), Num(102), Num(103),
      Num(-102), Num(-101), Num(-100), Num(-99)>>

SeqsUpTo(S, n) == UNION {[1..k -> S] : k \in 0..n}

\* one time bar
Bar(o, h, l, c) == [o |-> Num(o), h |-> Num(h), l |-> Num(l), c |-> Num(c)]
Flat(k) == Bar(k, k, k, k)
AtrBars == {Bar(10, 11, 9, 10), Bar(11, 15, 11, 14), Flat(8)}
HaBars == {Flat(2), Flat(3), Bar(1, 4, 1, 3), Bar(3, 3, 0, 2)}

NoSeq == <<>>
\* a list of prices
ListDs(s) ==
    [kind |-> "list", keys |-> {}, data |-> s,
     open |-> NoSeq, high |-> NoSeq, low |-> NoSeq, close |-> NoSeq]
\* an object without __iter__
ScalarDs == [ListDs(NoSeq) EXCEPT !.kind = "scalar"]
\* an OHLC table: kind "dict" is a dict of lists, kind "frame" a pandas
\* DataFrame; keys are the columns it has
TableDs(kind, keys, bars) ==
    [kind |-> kind, keys |-> keys, data |-> NoSeq,
     open  |-> [j \in 1..Len(bars) |-> bars[j].o],
     high  |-> [j \in 1..Len(bars) |-> bars[j].h],
     low   |-> [j \in 1..Len(bars) |-> bars[j].l],
     close |-> [j \in 1..Len(bars) |-> bars[j].c]]

\* the keyword arguments: a function from the names given to their values
Kwargs(S, f, p, a, c) ==
    [k \in S |-> CASE k = "fixed" -> f
                   [] k = "percentage" -> p
                   [] k = "atr" -> a
                   [] OTHER -> c]

\* the data a caller passes with the options S: a table when the ATR engine
\* is the only one asked for, a list (or, for the shape check, a scalar)
\* otherwise
DsFor(S) ==
    IF S \cap SizingKeys = {"atr"}
    THEN {TableDs(kd, OhlcKeys, b) :
             kd \in {"dict", "frame"}, b \in SeqsUpTo(AtrBars, MaxBars)}
    ELSE {ListDs(s) : s \in SeqsUpTo(Prices, MaxLen) \cup {ExampleSeries}}
         \cup {ScalarDs}

(* ------------------------------- state --------------------------------- *)
VARIABLES
    fn,          \* the function called: "renko" or "ha_candlesticks"
    ds,          \* its positional argument (ds / ohlc)
    kwargs,      \* its keyword arguments
    pc,          \* "call", a loop of an engine, "returned" or "raised"
    err,         \* the exception raised, "none" before
    condensed,   \* renko: local condensed
    i,           \* position of the running loop (0-based)
    last_price,  \* brick engines: the anchor
    chart,       \* brick engines: the chart built so far
    curr_atr,    \* ATR engine: the running ATR
    ha_o, ha_h, ha_l, ha_c,  \* Heikin-Ashi: the four accumulators
    ha_out,      \* Heikin-Ashi: the mapping returned
    emitted,     \* history: number of bricks appended so far
    flat,        \* history: number of samples that produced no brick
    visited      \* history: bar indices the ATR streaming loop processed

vars == <<fn, ds, kwargs, pc, err, condensed, i, last_price, chart, curr_atr,
          ha_o, ha_h, ha_l, ha_c, ha_out, emitted, flat, visited>>

NoOut == [open |-> NoSeq, high |-> NoSeq, low |-> NoSeq, close |-> NoSeq]

Locals0 ==
    /\ pc = "call"
    /\ err = "none"
    /\ condensed = TRUE
    /\ i = 0
    /\ last_price = Num(0)
    /\ chart = NoSeq
    /\ curr_atr = Num(0)
    /\ ha_o = NoSeq /\ ha_h = NoSeq /\ ha_l = NoSeq /\ ha_c = NoSeq
    /\ ha_out = NoOut
    /\ emitted = 0
    /\ flat = 0
    /\ visited = NoSeq

InitRenko ==
    /\ fn = "renko"
    /\ \E S \in SUBSET (SizingKeys \cup {"condensed"}) :
       \E f \in Steps, p \in Percentages, a \in Windows, c \in BOOLEAN :
          /\ kwargs = Kwargs(S, f, p, a, c)
          /\ ds \in DsFor(S)
    /\ Locals0

InitHa ==
    /\ fn = "ha_candlesticks"
    /\ kwargs = Kwargs({}, Num(0), Num(0), 0, TRUE)
    /\ \E kd \in {"dict", "frame"}, b \in SeqsUpTo(HaBars, MaxHaBars) :
       \E ks \in {OhlcKeys} \cup {OhlcKeys \ {k} : k \in OhlcKeys} :
          ds = TableDs(kd, ks, b)
    /\ Locals0

Init == InitRenko \/ InitHa

(* ------------------------------ raising -------------------------------- *)
\* an exception leaves the call: nothing is returned
Raise(e) ==
    /\ pc' = "raised"
    /\ err' = e
    /\ UNCHANGED <<fn, ds, kwargs, condensed, i, last_price, chart, curr_atr,
                   ha_o, ha_h, ha_l, ha_c, ha_out, emitted, flat, visited>>

(* --------------------------- renko(): dispatch ------------------------- *)
\* lines 30-32: condensed defaults to True
CondensedArg ==
    IF "condensed" \in DOMAIN kwargs THEN kwargs["condensed"] ELSE TRUE

\* ds[0] exists: a non-empty list (a table has no key 0)
HasFirst == ds.kind = "list" /\ Len(ds.data) >= 1

\* lines 27-28
RenkoNotIterable ==
    /\ pc = "call" /\ fn = "renko"
    /\ ds.kind = "scalar"
    /\ Raise("Exception")

\* the branch of lines 34-41 that is taken
Branch ==
    IF "fixed" \in DOMAIN kwargs THEN "fixed"
    ELSE IF "percentage" \in DOMAIN kwargs THEN "percentage"
    ELSE IF "atr" \in DOMAIN kwargs THEN "atr"
    ELSE "none"

\* lines 45-46 and 61-62: the seed of the list engines
SeedList(loop) ==
    IF HasFirst
    THEN /\ pc' = loop
         /\ condensed' = CondensedArg
         /\ last_price' = At(ds.data, 0)
         /\ chart' = <<At(ds.data, 0)>>
         /\ i' = 0
         /\ UNCHANGED <<fn, ds, kwargs, err, curr_atr,
                        ha_o, ha_h, ha_l, ha_c, ha_out, emitted, flat, visited>>
    ELSE Raise("LookupError")

\* lines 34-35, entering _renko_step
RenkoFixed ==
    /\ pc = "call" /\ fn = "renko"
    /\ ds.kind # "scalar"
    /\ Branch = "fixed"
    /\ SeedList("step_loop")

\* line 41
RenkoNotRecognized ==
    /\ pc = "call" /\ fn = "renko"
    /\ ds.kind # "scalar"
    /\ Branch = "none"
    /\ Raise("ValueError")

(* ------------------------ the brick arithmetic ------------------------- *)
\* line 48 (and 96): math.floor(abs(price-last_price)/step), step # 0
BrickCount(price, last, step) == floor(Div(abs(Sub(price, last)), step))

\* the brick without its direction sign
BrickNoSign(sg, last, step, x) == Add(last, Mul(Num(sg * x), step))

\* lines 55, 73, 103: sign*(last_price+(sign*step*x))
Brick(sg, last, step, x) ==
    Mul(Num(sg), Add(last, Mul(Num(sg * x), step)))

\* the comprehension over range(1, n): the last brick is missing
BrickRunShort(sg, last, step, n) ==
    [x \in 1..(n - 1) |-> Brick(sg, last, step, x)]

\* the list comprehension for x in range(1, n+1); empty when n < 1
BrickRun(sg, last, step, n) ==
    [x \in 1..n |-> Brick(sg, last, step, x)]

\* the repeat is never made / is made whatever condensed says
FillerNever(cond, ch) == ch
FillerAlways(cond, ch) == Append(ch, Last(ch))

\* lines 50-51: the flat repeat of a sample without a brick
Filler(cond, ch) == IF cond THEN Append(ch, Last(ch)) ELSE ch

\* lines 49-52, 65-68, 97-100: no brick, next sample
NoBrick ==
    /\ chart' = Filler(condensed, chart)
    /\ flat' = flat + 1
    /\ i' = i + 1
    /\ UNCHANGED <<fn, ds, kwargs, pc, err, condensed, last_price, curr_atr,
                   ha_o, ha_h, ha_l, ha_c, ha_out, emitted>>

\* lines 55-56, 73-75, 103-105: append the bricks, move the anchor
Emit(run) ==
    /\ chart' = chart \o run
    /\ last_price' = abs(Last(chart'))
    /\ emitted' = emitted + Len(run)
    /\ i' = i + 1
    /\ UNCHANGED <<fn, ds, kwargs, pc, err, condensed,
                   ha_o, ha_h, ha_l, ha_c, ha_out, flat>>

(* ----------------------------- _renko_step ----------------------------- *)
\* lines 47-56: one sample of the fixed-step loop
StepSample ==
    /\ pc = "step_loop"
    /\ i < Len(ds.data)
    /\ LET price == At(ds.data, i)
           step == kwargs["fixed"]
       IN  IF IsZero(step) THEN Raise("ZeroDivisionError")
           ELSE LET bricks == BrickCount(price, last_price, step)
                    sg == sign(Sub(price, last_price))
                    run == BrickRun(sg, last_price, step, bricks)
                IN  IF bricks = 0 THEN NoBrick /\ UNCHANGED visited
                    ELSE Emit(run) /\ UNCHANGED <<curr_atr, visited>>

\* line 57
StepReturn ==
    /\ pc = "step_loop"
    /\ i = Len(ds.data)
    /\ pc' = "returned"
    /\ UNCHANGED <<fn, ds, kwargs, err, condensed, i, last_price, chart,
                   curr_atr, ha_o, ha_h, ha_l, ha_c, ha_out, emitted, flat, visited>>

(* -------------------------- _renko_percentage -------------------------- *)
\* lines 36-37, entering _renko_percentage
RenkoPercentage ==
    /\ pc = "call" /\ fn = "renko"
    /\ ds.kind # "scalar"
    /\ Branch = "percentage"
    /\ SeedList("pct_loop")

\* line 64: (price-last_price)/last_price, last_price # 0
Inc(price, last) == Div(Sub(price, last), last)

\* line 71: math.floor(inc/percentage)
PctBricks(inc, percentage) == floor(Div(inc, percentage))

\* line 72: math.floor((percentage * (price-last_price)) / inc), inc # 0
PctStep(price, last, percentage, inc) ==
    Num(floor(Div(Mul(percentage, Sub(price, last)), inc)))

\* lines 63-75: one sample of the percentage loop
PctSample ==
    /\ pc = "pct_loop"
    /\ i < Len(ds.data)
    /\ LET price == At(ds.data, i)
           percentage == kwargs["percentage"]
       IN  IF IsZero(last_price) THEN Raise("ZeroDivisionError")
           ELSE LET inc == Inc(price, last_price) IN
                IF Less(abs(inc), percentage)
                THEN NoBrick /\ UNCHANGED visited
                ELSE IF IsZero(percentage) \/ IsZero(inc)
                THEN Raise("ZeroDivisionError")
                ELSE LET sg == sign(Sub(price, last_price))
                         bricks == PctBricks(inc, percentage)
                         step == PctStep(price, last_price, percentage, inc)
                     IN  /\ Emit(BrickRun(sg, last_price, step, Abs(bricks)))
                         /\ UNCHANGED <<curr_atr, visited>>

\* line 76
PctReturn ==
    /\ pc = "pct_loop"
    /\ i = Len(ds.data)
    /\ pc' = "returned"
    /\ UNCHANGED <<fn, ds, kwargs, err, condensed, i, last_price, chart,
                   curr_atr, ha_o, ha_h, ha_l, ha_c, ha_out, emitted, flat, visited>>

(* ------------------------------ _renko_atr ----------------------------- *)
\* ohlc[k][j] exists
HasCell(k, j) ==
    /\ ds.kind \in {"dict", "frame"}
    /\ k \in ds.keys
    /\ 0 <= j /\ j < Len(ds[k])

\* len(ohlc): the number of keys of a dict, the number of rows of a
\* DataFrame
LenOhlc ==
    IF ds.kind = "dict" THEN Cardinality(ds.keys) ELSE Len(ds.close)

\* lines 87-88 and 110: max(high, prev_close) - min(low, prev_close) of bar j
TrueRange(j) ==
    LET prev_close == At(ds.close, j - 1)
        curr_high == At(ds.high, j)
        curr_low == At(ds.low, j)
    IN  Sub(max2(curr_high, prev_close), min2(curr_low, prev_close))

\* line 111: (curr_atr*(atr_n-1) + new_atr) / atr_n
Smooth(atr, atr_n, new_atr) ==
    Div(Add(Mul(atr, Num(atr_n - 1)), new_atr), Num(atr_n))

\* lines 38-39 and 81, entering _renko_atr
RenkoAtr ==
    /\ pc = "call" /\ fn = "renko"
    /\ ds.kind # "scalar"
    /\ Branch = "atr"
    /\ pc' = "atr_warm"
    /\ condensed' = CondensedArg
    /\ curr_atr' = Num(0)
    /\ i' = 1
    /\ UNCHANGED <<fn, ds, kwargs, err, last_price, chart,
                   ha_o, ha_h, ha_l, ha_c, ha_out, emitted, flat, visited>>

\* lines 82-88: one bar of the warm-up
AtrWarm ==
    /\ pc = "atr_warm"
    /\ i <= kwargs["atr"]
    /\ IF HasCell("close", i - 1) /\ HasCell("high", i) /\ HasCell("low", i)
       THEN /\ curr_atr' = Add(curr_atr, TrueRange(i))
            /\ i' = i + 1
            /\ UNCHANGED <<fn, ds, kwargs, pc, err, condensed, last_price,
                           chart, ha_o, ha_h, ha_l, ha_c, ha_out, emitted,
                           flat, visited>>
       ELSE Raise("LookupError")

\* lines 90-94: the first ATR, the seed, the start of the streaming loop
AtrSeed ==
    /\ pc = "atr_warm"
    /\ i > kwargs["atr"]
    /\ LET atr_n == kwargs["atr"] IN
       IF atr_n = 0 THEN Raise("ZeroDivisionError")
       ELSE IF ~HasCell("close", atr_n + 1) THEN Raise("LookupError")
       ELSE /\ curr_atr' = Div(curr_atr, Num(atr_n))
            /\ last_price' = At(ds.close, atr_n + 1)
            /\ chart' = <<At(ds.close, atr_n + 1)>>
            /\ i' = atr_n + 2
            /\ pc' = "atr_loop"
            /\ UNCHANGED <<fn, ds, kwargs, err, condensed,
                           ha_o, ha_h, ha_l, ha_c, ha_out, emitted, flat, visited>>

\* lines 94-111: one bar of the streaming loop
AtrSample ==
    /\ pc = "atr_loop"
    /\ i < LenOhlc
    /\ IF ~HasCell("close", i) THEN Raise("LookupError")
       ELSE IF IsZero(curr_atr) THEN Raise("ZeroDivisionError")
       ELSE LET price == At(ds.close, i)
                atr_n == kwargs["atr"]
                bricks == BrickCount(price, last_price, curr_atr)
                sg == sign(Sub(price, last_price))
            IN  /\ visited' = Append(visited, i)
                /\ IF bricks = 0 THEN NoBrick
                   ELSE /\ Emit(BrickRun(sg, last_price, curr_atr, bricks))
                        /\ curr_atr' = Smooth(curr_atr, atr_n, TrueRange(i))

\* line 113
AtrReturn ==
    /\ pc = "atr_loop"
    /\ i >= LenOhlc
    /\ pc' = "returned"
    /\ UNCHANGED <<fn, ds, kwargs, err, condensed, i, last_price, chart,
                   curr_atr, ha_o, ha_h, ha_l, ha_c, ha_out, emitted, flat, visited>>

(* ---------------------------- ha_candlesticks -------------------------- *)
\* lines 128-135: a column is missing
HaMissing ==
    /\ pc = "call" /\ fn = "ha_candlesticks"
    /\ ~(OhlcKeys \subseteq ds.keys)
    /\ Raise("Exception")

\* lines 137-145: the seed row
HaSeed ==
    /\ pc = "call" /\ fn = "ha_candlesticks"
    /\ OhlcKeys \subseteq ds.keys
    /\ IF Len(ds.open) = 0 THEN Raise("LookupError")
       ELSE /\ ha_c' = <<mean(<<At(ds.open, 0), At(ds.high, 0),
                                At(ds.low, 0), At(ds.close, 0)>>)>>
            /\ ha_o' = <<mean(<<At(ds.open, 0), At(ds.close, 0)>>)>>
            /\ ha_h' = <<NaN>>
            /\ ha_l' = <<NaN>>
            /\ i' = 1
            /\ pc' = "ha_loop"
            /\ UNCHANGED <<fn, ds, kwargs, err, condensed, last_price, chart,
                           curr_atr, ha_out, emitted, flat, visited>>

\* line 147
HaClose(j) ==
    mean(<<At(ds.open, j), At(ds.high, j), At(ds.low, j), At(ds.close, j)>>)
\* the sum of the previous open and close, not their mean
HaOpenSum(prev_o, prev_c) == Add(prev_o, prev_c)
\* line 148
HaOpen(prev_o, prev_c) == mean(<<prev_o, prev_c>>)
\* line 149
HaHigh(h, o, c) == max2(h, max2(o, c))
\* line 150
HaLow(l, o, c) == min2(l, min2(o, c))

\* lines 146-150: one row of the recurrence
HaStep ==
    /\ pc = "ha_loop"
    /\ i < Len(ds.open)
    /\ LET c == HaClose(i)
           o == HaOpen(At(ha_o, i - 1), At(ha_c, i - 1))
       IN  /\ ha_c' = Append(ha_c, c)
           /\ ha_o' = Append(ha_o, o)
           /\ ha_h' = Append(ha_h, HaHigh(At(ds.high, i), o, c))
           /\ ha_l' = Append(ha_l, HaLow(At(ds.low, i), o, c))
    /\ i' = i + 1
    /\ UNCHANGED <<fn, ds, kwargs, pc, err, condensed, last_price, chart,
                   curr_atr, ha_out, emitted, flat, visited>>

\* lines 152-157: the first row is dropped
HaReturn ==
    /\ pc = "ha_loop"
    /\ i >= Len(ds.open)
    /\ ha_out' = [open |-> Slice1(ha_o), high |-> Slice1(ha_h),
                  low |-> Slice1(ha_l), close |-> Slice1(ha_c)]
    /\ pc' = "returned"
    /\ UNCHANGED <<fn, ds, kwargs, err, condensed, i, last_price, chart,
                   curr_atr, ha_o, ha_h, ha_l, ha_c, emitted, flat, visited>>

(* --------------------------- the specification ------------------------- *)
Next ==
    \/ RenkoNotIterable
    \/ RenkoFixed
    \/ RenkoPercentage
    \/ RenkoAtr
    \/ RenkoNotRecognized
    \/ StepSample
    \/ StepReturn
    \/ PctSample
    \/ PctReturn
    \/ AtrWarm
    \/ AtrSeed
    \/ AtrSample
    \/ AtrReturn
    \/ HaMissing
    \/ HaSeed
    \/ HaStep
    \/ HaReturn

Spec == Init /\ [][Next]_vars

(* ============================== properties ============================= *)
Positive(a) == a[1] > 0
NonNegative(a) == a[1] >= 0
AllOf(seq, P(_)) == \A j \in 1..Len(seq) : P(seq[j])

\* the call went to the fixed-step engine and is in or past its loop
InFixed == fn = "renko" /\ Branch = "fixed" /\ pc \in {"step_loop", "returned"}

\* the entries of ch2 after the first Len(ch1)
Appended(ch1, ch2) == SubSeq(ch2, Len(ch1) + 1, Len(ch2))

(* C1: in the fixed-step engine, with positive prices and a positive step, *)
(* a sample that is n >= 1 whole steps away from the anchor appends        *)
(* exactly the n bricks sign*(anchor + sign*step*x), x = 1..n, and the     *)
(* anchor becomes the absolute value of the last of them; the series       *)
(* [100, 101, 103, 99] with step 1, not condensed, returns                 *)
(* [100, 101, 102, 103, -102, -101, -100, -99].                            *)
C1_IsExample ==
    /\ InFixed
    /\ ds.data = ExampleSeries
    /\ kwargs["fixed"] = Num(1)
    /\ CondensedArg = FALSE

C1_Sample ==
    LET price == At(ds.data, i)
        step == kwargs["fixed"]
        delta == abs(Sub(price, last_price))
        up == Less(last_price, price)
        \* n whole steps fit in delta: n*step <= delta < (n+1)*step
        Fits(n) == /\ ~Less(delta, Mul(Num(n), step))
                   /\ Less(delta, Mul(Num(n + 1), step))
        Value(x) == IF up THEN Add(last_price, Mul(Num(x), step))
                    ELSE Sub(Mul(Num(x), step), last_price)
    IN  \A n \in 1..Len(chart') :
           Fits(n) =>
              /\ Appended(chart, chart') = [x \in 1..n |-> Value(x)]
              /\ last_price' = abs(Value(n))

C1_FixedBricks ==
    [][ /\ ( /\ InFixed /\ pc = "step_loop" /\ pc' = "step_loop"
             /\ AllOf(ds.data, Positive) /\ Positive(kwargs["fixed"]) )
           => C1_Sample
        /\ (C1_IsExample /\ pc' = "returned") => chart' = ExampleChart ]_vars

C1_Witness ==
    /\ C1_IsExample
    /\ pc = "returned"
    /\ chart = ExampleChart
    /\ emitted = 7

(* C2, as claimed: in condensed mode the chart the fixed-step engine       *)
(* returns has the length of the input series.                             *)
C2_ChartLenIsInputLen ==
    ( /\ InFixed /\ pc = "returned" /\ condensed
      /\ AllOf(ds.data, Positive) /\ Positive(kwargs["fixed"]) )
    => Len(chart) = Len(ds.data)

(* C2, amended: in condensed mode the chart starts with the seed, a sample *)
(* with a brick count of 0 appends exactly one repeat of the last chart    *)
(* value and a sample with bricks appends its bricks, so that the chart is *)
(* 1 + the samples with count 0 + the bricks emitted long (one more than   *)
(* the input series when every sample has count 0).                        *)
C2_CondensedLength ==
    [][ (InFixed /\ pc = "step_loop" /\ condensed) =>
          /\ Len(chart') = 1 + flat' + emitted'
          /\ flat' = flat + 1 => chart' = Append(chart, Last(chart))
          /\ (pc' = "returned" /\ flat' = Len(ds.data)) =>
                Len(chart') = Len(ds.data) + 1 ]_vars

C2_Witness ==
    /\ InFixed /\ pc = "returned" /\ condensed
    /\ Positive(kwargs["fixed"])
    /\ flat >= 2 /\ emitted >= 2
    /\ Len(chart) = 1 + flat + emitted
    /\ Len(chart) > Len(ds.data) + 1

(* C3: a call of renko() that gives more than one of fixed, percentage,    *)
(* atr ends in an error and returns no chart.                              *)
C3_MultipleOptionsRaise ==
    ( /\ fn = "renko" /\ Cardinality(DOMAIN kwargs \cap SizingKeys) > 1
      /\ AllOf(ds.data, Positive)
      /\ "fixed" \in DOMAIN kwargs => Positive(kwargs["fixed"]) )
    => pc # "returned"

(* C4: a call renko(ds, fixed=step) with step <= 0 ends in an error and    *)
(* never returns a chart.                                                  *)
C4_NonPositiveStepRaises ==
    ( /\ fn = "renko" /\ Branch = "fixed" /\ ~Positive(kwargs["fixed"])
      /\ AllOf(ds.data, Positive) )
    => pc # "returned"

(* C5: every iteration of the ATR streaming loop, also one that makes no   *)
(* brick, updates the running ATR to                                       *)
(* (atr*(window-1) + true range of the current bar)/window.                *)
C5_AtrUpdatedEveryIteration ==
    [][ (pc = "atr_loop" /\ pc' = "atr_loop" /\ i' = i + 1) =>
           curr_atr' = Smooth(curr_atr, kwargs["atr"], TrueRange(i)) ]_vars

(* C6: renko(ohlc, atr=w) on a mapping of n >= w+3 bars seeds the chart    *)
(* with close[w+1] and its streaming loop processes the bars w+2 .. n-1,   *)
(* each once and in increasing order.                                      *)
C6_StreamVisitsAllBars ==
    LET w == kwargs["atr"]
        n == Len(ds.close)
    IN  ( /\ fn = "renko" /\ Branch = "atr" /\ pc = "returned"
          /\ n >= w + 3 )
        => /\ chart[1] = At(ds.close, w + 1)
           /\ visited = [k \in 1..(n - w - 2) |-> w + 1 + k]

(* C7: in the percentage engine, with positive prices and 0 < p < 1, every *)
(* brick appended for a price above the anchor is strictly positive and    *)
(* every brick appended for a price below the anchor strictly negative.    *)
C7_BrickSignIsDirection ==
    [][ ( /\ fn = "renko" /\ Branch = "percentage"
          /\ pc = "pct_loop" /\ pc' = "pct_loop"
          /\ AllOf(ds.data, Positive)
          /\ emitted' > emitted )
        => LET price == At(ds.data, i)
               new == Appended(chart, chart')
           IN  /\ Less(last_price, price) => AllOf(new, Positive)
               /\ Less(price, last_price) =>
                     \A j \in 1..Len(new) : new[j][1] < 0 ]_vars

(* C8: not condensed, the chart of the fixed-step engine is 1 + the number *)
(* of bricks emitted long: a sample without a brick appends nothing.       *)
C8_NonCondensedLength ==
    (InFixed /\ ~condensed) => Len(chart) = 1 + emitted

C8_Witness ==
    /\ InFixed /\ pc = "returned" /\ ~condensed
    /\ Positive(kwargs["fixed"])
    /\ flat >= 2 /\ emitted >= 2
    /\ Len(chart) = 1 + emitted

(* C9: on a flat series (open = high = low = close = k in every bar) of    *)
(* n >= 2 bars, Heikin-Ashi returns n-1 rows, all of them k in all four    *)
(* fields.                                                                 *)
C9_IsFlat ==
    /\ fn = "ha_candlesticks"
    /\ OhlcKeys \subseteq ds.keys
    /\ Len(ds.open) >= 2
    /\ \A j \in 1..Len(ds.open) :
          /\ ds.open[j] = ds.open[1]
          /\ ds.high[j] = ds.open[1]
          /\ ds.low[j] = ds.open[1]
          /\ ds.close[j] = ds.open[1]

C9_FlatStaysFlat ==
    (C9_IsFlat /\ pc = "returned") =>
        \A k \in OhlcKeys :
           ha_out[k] = [j \in 1..(Len(ds.open) - 1) |-> ds.open[1]]

C9_Witness ==
    /\ C9_IsFlat /\ pc = "returned"
    /\ Len(ds.open) = 3
    /\ ha_out.open = <<ds.open[1], ds.open[1]>>
    /\ ha_out.high = ha_out.low

====
